---- MODULE Spec2Model ----
(***************************************************************************)
(* Model of azure/servicemanagement/_http/httpclient.py (_HTTPClient):     *)
(* the query normalizer (_update_request_uri_query) and the request        *)
(* execution loop (perform_request) with its 307 re-dispatch.              *)
(*                                                                         *)
(* Python strings and byte strings are sequences of one-character strings. *)
(* Python's None is the one-element sequence None, which is not a string   *)
(* of characters, so that it differs from the empty string <<>>.           *)
(***************************************************************************)
EXTENDS Integers, Sequences, FiniteSets, TLC

VARIABLES
    cfg,        \* the client configuration (self.* set by __init__ / set_proxy)
    request,    \* the Request object handed to perform_request
    stack,      \* the activation records of perform_request, innermost last
    conns,      \* every connection object created so far, by identity
    events,     \* the operations performed on connections, in program order
    outcome,    \* what the innermost finished activation returned or raised
    phase,      \* "idle" before the call, "running", "done" after it
    nreq,       \* the Request object handed to _update_request_uri_query
    nin,        \* the caller's path and query pairs before that call
    ncalled,    \* whether _update_request_uri_query has returned
    env,        \* what __init__ was given and found: session, platform, certificate
    other       \* the suspended thread of a second, concurrent perform_request call

vars == <<cfg, request, stack, conns, events, outcome, phase, nreq, nin, ncalled,
          env, other>>

loopVars == <<cfg, request, stack, conns, events, outcome, phase>>
normVars == <<nreq, nin, ncalled>>

-----------------------------------------------------------------------------
(* Bounds of the model *)

MaxHops == 2        \* hops the server lets a call make before it stops redirecting
MaxBody == 1        \* longest response body, in bytes
MaxInline == 2      \* most '&'-separated segments in an inline query string
MaxExplicit == 2    \* most explicit query pairs on a request

-----------------------------------------------------------------------------
(* Strings *)

None == <<"None">>

Range(s) == {s[i] : i \in DOMAIN s}

SeqsUpTo(S, n) == UNION {[1..k -> S] : k \in 0..n}

\* index of the first occurrence of c in s, 0 when there is none (str.find + 1)
IndexOf(s, c) ==
    IF c \in Range(s)
    THEN CHOOSE i \in DOMAIN s : s[i] = c /\ \A j \in 1..(i - 1) : s[j] # c
    ELSE 0

\* index of the last occurrence of c in s, 0 when there is none
LastIndexOf(s, c) ==
    IF c \in Range(s)
    THEN CHOOSE i \in DOMAIN s : s[i] = c /\ \A j \in (i + 1)..Len(s) : s[j] # c
    ELSE 0

\* str.partition(c): <<head, separator, tail>>, <<s, '', ''>> when c is absent
partition(s, c) ==
    LET i == IndexOf(s, c)
    IN  IF i = 0 THEN <<s, <<>>, <<>>>>
        ELSE <<SubSeq(s, 1, i - 1), <<c>>, SubSeq(s, i + 1, Len(s))>>

\* str.split(c)
RECURSIVE split(_, _)
split(s, c) ==
    LET i == IndexOf(s, c)
    IN  IF i = 0 THEN <<s>>
        ELSE <<SubSeq(s, 1, i - 1)>> \o split(SubSeq(s, i + 1, Len(s)), c)

UpperChars == {"A", "B", "H", "I", "L", "X"}
LowerOfUpper ==
    [c \in UpperChars |->
        CASE c = "A" -> "a" [] c = "B" -> "b" [] c = "H" -> "h"
          [] c = "I" -> "i" [] c = "L" -> "l" [] c = "X" -> "x"]

\* str.lower()
lower(s) == [i \in DOMAIN s |-> IF s[i] \in UpperChars THEN LowerOfUpper[s[i]] ELSE s[i]]

-----------------------------------------------------------------------------
(* urllib quote *)

\* characters quote() never encodes: letters, digits and "_.-~"
AlwaysSafe ==
    {"a", "b", "c", "d", "e", "f", "g", "h", "i", "j", "k", "l", "m",
     "n", "o", "p", "q", "r", "s", "t", "u", "v", "w", "x", "y", "z",
     "A", "B", "C", "D", "E", "F", "G", "H", "I", "J", "K", "L", "M",
     "N", "O", "P", "Q", "R", "S", "T", "U", "V", "W", "X", "Y", "Z",
     "0", "1", "2", "3", "4", "5", "6", "7", "8", "9",
     "_", ".", "-", "~"}

\* the safe argument of both url_quote calls: '/()$=\','
Safe == {"/", "(", ")", "$", "=", "'", ","}

\* '%XX' of the characters of the model's alphabet that quote() encodes
PctEncode(c) ==
    CASE c = " " -> <<"%", "2", "0">>
      [] c = "%" -> <<"%", "2", "5">>
      [] c = "&" -> <<"%", "2", "6">>
      [] c = "?" -> <<"%", "3", "F">>
      [] c = ":" -> <<"%", "3", "A">>
      [] c = "#" -> <<"%", "2", "3">>
      [] c = "/" -> <<"%", "2", "F">>
      [] c = "=" -> <<"%", "3", "D">>
      [] c = "(" -> <<"%", "2", "8">>
      [] c = ")" -> <<"%", "2", "9">>
      [] c = "$" -> <<"%", "2", "4">>
      [] c = "'" -> <<"%", "2", "7">>
      [] c = "," -> <<"%", "2", "C">>

\* quote(s) with the safe argument left out of account
RECURSIVE url_quote_nosafe(_, _)
url_quote_nosafe(s, safe) ==
    IF s = <<>> THEN <<>>
    ELSE (IF Head(s) \in AlwaysSafe THEN <<Head(s)>> ELSE PctEncode(Head(s)))
         \o url_quote_nosafe(Tail(s), safe)

\* quote(s, safe): every character that is neither unreserved nor in safe
\* is replaced by its '%XX'
RECURSIVE url_quote(_, _)
url_quote(s, safe) ==
    IF s = <<>> THEN <<>>
    ELSE (IF Head(s) \in AlwaysSafe \cup safe THEN <<Head(s)>> ELSE PctEncode(Head(s)))
         \o url_quote(Tail(s), safe)

-----------------------------------------------------------------------------
(* _update_request_uri_query *)

\* lines 214-218: the (name, value) pairs of the '&'-separated segments that
\* contain '=', in order
RECURSIVE PairsOf(_)
PairsOf(segs) ==
    IF segs = <<>> THEN <<>>
    ELSE (IF "=" \in Range(Head(segs))
          THEN <<<<partition(Head(segs), "=")[1], partition(Head(segs), "=")[3]>>>>
          ELSE <<>>)
         \o PairsOf(Tail(segs))

InlinePairs(query_string) ==
    IF query_string # <<>> THEN PairsOf(split(query_string, "&")) ELSE <<>>

\* lines 211-218 with the inline pairs put in front of the existing ones
MergeQueryInlineFirst(path, query) ==
    IF "?" \in Range(path)
    THEN <<partition(path, "?")[1], InlinePairs(partition(path, "?")[3]) \o query>>
    ELSE <<path, query>>

\* lines 211-218: request.path and request.query after the inline query
\* string has been moved into request.query
MergeQuery(path, query) ==
    IF "?" \in Range(path)
    THEN <<partition(path, "?")[1], query \o InlinePairs(partition(path, "?")[3])>>
    ELSE <<path, query>>

\* lines 225-227 walking request.query backwards
RECURSIVE EncodeQueryReversed(_)
EncodeQueryReversed(query) ==
    IF query = <<>> THEN <<>>
    ELSE EncodeQueryReversed(Tail(query))
         \o (IF Head(query)[2] # None
             THEN Head(query)[1] \o <<"=">> \o url_quote(Head(query)[2], Safe) \o <<"&">>
             ELSE <<>>)

\* lines 225-227: 'name=quoted-value&' of every pair whose value is not None
RECURSIVE EncodeQuery(_)
EncodeQuery(query) ==
    IF query = <<>> THEN <<>>
    ELSE (IF Head(query)[2] # None
          THEN Head(query)[1] \o <<"=">> \o url_quote(Head(query)[2], Safe) \o <<"&">>
          ELSE <<>>)
         \o EncodeQuery(Tail(query))

\* lines 205-230: the returned (request.path, request.query)
update_request_uri_query(path, query) ==
    LET merged == MergeQuery(path, query)
        quoted == url_quote(merged[1], Safe)
        withq  == quoted \o <<"?">> \o EncodeQuery(merged[2])
    IN  IF merged[2] # <<>>
        THEN <<SubSeq(withq, 1, Len(withq) - 1), merged[2]>>
        ELSE <<quoted, merged[2]>>

-----------------------------------------------------------------------------
(* The callers' inputs to _update_request_uri_query *)

\* paths without an inline query string
BasePaths == {<<"/", "a">>, <<"/", "a", " ", "b">>, <<"/", "(", "a", ")">>, <<>>}

\* the segments of an inline query string: name, then '=' and value when eq
Segments ==
    {[name |-> <<"x">>, eq |-> TRUE,  value |-> <<"1">>],
     [name |-> <<"k">>, eq |-> TRUE,  value |-> <<" ">>],
     [name |-> <<"z">>, eq |-> FALSE, value |-> <<>>],
     [name |-> <<"e">>, eq |-> TRUE,  value |-> <<>>]}

\* explicit (name, value) pairs a caller puts on request.query
ExplicitPairs == {<<<<"y">>, <<"2">>>>, <<<<"n">>, None>>, <<<<"p">>, <<"&">>>>}

SegText(g) == IF g.eq THEN g.name \o <<"=">> \o g.value ELSE g.name

RECURSIVE JoinSegs(_)
JoinSegs(segs) ==
    IF segs = <<>> THEN <<>>
    ELSE IF Len(segs) = 1 THEN SegText(segs[1])
    ELSE SegText(segs[1]) \o <<"&">> \o JoinSegs(Tail(segs))

\* the path a caller writes: base, then '?' and the segments when inline
RawPath(base, inline, segs) ==
    IF inline THEN base \o <<"?">> \o JoinSegs(segs) ELSE base

\* _update_request_uri_query(request), lines 205-230: request.path and
\* request.query are rewritten in place
UpdateRequestUriQuery ==
    /\ ~ncalled
    /\ nreq' = [path  |-> update_request_uri_query(nreq.path, nreq.query)[1],
                query |-> update_request_uri_query(nreq.path, nreq.query)[2]]
    /\ ncalled' = TRUE
    /\ UNCHANGED <<nin, loopVars, env, other>>

NoOutcome ==
    [kind |-> "none", status |-> 0, reason |-> "", headers |-> <<>>, body |-> <<"None">>]

\* no second thread
NoThread ==
    [id |-> 0, request |-> <<>>, stack |-> <<>>, events |-> <<>>, outcome |-> NoOutcome,
     phase |-> "absent"]

IdleLoop ==
    /\ cfg = <<>>
    /\ request = <<>>
    /\ env = <<>>
    /\ other = NoThread
    /\ stack = <<>>
    /\ conns = <<>>
    /\ events = <<>>
    /\ outcome = NoOutcome
    /\ phase = "idle"

InitQ ==
    /\ \E base \in BasePaths, inline \in BOOLEAN,
          segs \in SeqsUpTo(Segments, MaxInline),
          explicit \in SeqsUpTo(ExplicitPairs, MaxExplicit) :
         /\ inline \/ segs = <<>>
         /\ nin = [base |-> base, inline |-> inline, segs |-> segs,
                   path |-> RawPath(base, inline, segs), query |-> explicit]
         /\ nreq = [path |-> RawPath(base, inline, segs), query |-> explicit]
    /\ ncalled = FALSE
    /\ IdleLoop

NextQ == UpdateRequestUriQuery

SpecQ == InitQ /\ [][NextQ]_vars

-----------------------------------------------------------------------------
(* Properties of _update_request_uri_query, checked under SpecQ *)

\* the (name, value) pairs the caller wrote inline, from the segments
RECURSIVE WrittenInline(_)
WrittenInline(segs) ==
    IF segs = <<>> THEN <<>>
    ELSE (IF Head(segs).eq THEN <<<<Head(segs).name, Head(segs).value>>>> ELSE <<>>)
         \o WrittenInline(Tail(segs))

HasValue(pair) == pair[2] # None

\* 'name=quoted-value' of the pairs, joined by '&'
RECURSIVE Joined(_)
Joined(pairs) ==
    IF pairs = <<>> THEN <<>>
    ELSE pairs[1][1] \o <<"=">> \o url_quote(pairs[1][2], Safe)
         \o (IF Len(pairs) = 1 THEN <<>> ELSE <<"&">> \o Joined(Tail(pairs)))

\* the path that carries the given pairs as its query part
PathWith(base, pairs) ==
    IF SelectSeq(pairs, HasValue) = <<>> THEN url_quote(base, Safe)
    ELSE url_quote(base, Safe) \o <<"?">> \o Joined(SelectSeq(pairs, HasValue))

\* C7: for a path with an inline query string and a request that carries
\* explicit pairs, the resulting query list is the explicit pairs in their
\* order followed by the inline pairs in their order, and the query part of
\* the resulting path renders the pairs (those with a value) in that same
\* order; '/a?x=1' with explicit [('y','2')] gives '/a?y=2&x=1'.
C7_ExplicitBeforeInline ==
    (ncalled /\ nin.inline /\ nin.query # <<>>) =>
        /\ nreq.query = nin.query \o WrittenInline(nin.segs)
        /\ nreq.path = PathWith(nin.base, nin.query \o WrittenInline(nin.segs))
        /\ (nin.path = <<"/", "a", "?", "x", "=", "1">> /\ nin.query = <<<<<<"y">>, <<"2">>>>>>)
              => nreq.path = <<"/", "a", "?", "y", "=", "2", "&", "x", "=", "1">>

C7_Witness ==
    /\ ncalled
    /\ nin.path = <<"/", "a", "?", "x", "=", "1">>
    /\ nin.query = <<<<<<"y">>, <<"2">>>>>>
    /\ nreq.path = <<"/", "a", "?", "y", "=", "2", "&", "x", "=", "1">>
    /\ nreq.query = <<<<<<"y">>, <<"2">>>>, <<<<"x">>, <<"1">>>>>>

\* the '&'-separated pieces of the query part of a path
QueryPieces(path) ==
    IF "?" \in Range(path) THEN split(partition(path, "?")[3], "&") ELSE <<>>

Piece(pair) == pair[1] \o <<"=">> \o url_quote(pair[2], Safe)

\* pieces is the rendering of the pairs of first followed by those of second
PiecesInOrder(pieces, first, second) ==
    /\ Len(pieces) = Len(first) + Len(second)
    /\ \A i \in DOMAIN pieces :
          pieces[i] = IF i <= Len(first) THEN Piece(first[i])
                      ELSE Piece(second[i - Len(first)])

\* C8 as stated: in the final encoded path the parameters that were inline
\* in the path precede the explicit parameters merged with them.
C8_InlineBeforeExplicit ==
    (ncalled /\ nin.inline) =>
        PiecesInOrder(QueryPieces(nreq.path),
                      WrittenInline(nin.segs), SelectSeq(nin.query, HasValue))

\* C8 amended: in the final encoded path the explicit parameters (those with
\* a value) precede the parameters that were inline in the path.
C8_ExplicitPrecedeInPath ==
    (ncalled /\ nin.inline) =>
        PiecesInOrder(QueryPieces(nreq.path),
                      SelectSeq(nin.query, HasValue), WrittenInline(nin.segs))

C8_Witness ==
    /\ ncalled
    /\ nin.inline
    /\ Len(SelectSeq(nin.query, HasValue)) = 2
    /\ Len(WrittenInline(nin.segs)) = 2
    /\ nin.query[1] # nin.query[2]
    /\ Len(QueryPieces(nreq.path)) = 4
    /\ QueryPieces(nreq.path)[1] = Piece(nin.query[1])

\* C9 as stated: with no '?' in the path and no explicit pairs the call
\* leaves path and query list as they were, for every such path.
C9_NoOp ==
    (ncalled /\ "?" \notin Range(nin.path) /\ nin.query = <<>>) =>
        (nreq.path = nin.path /\ nreq.query = nin.query)

\* C9 amended: with no '?' in the path and no explicit pairs the query list
\* stays empty, and the path is unchanged exactly when all its characters
\* are unreserved or in the safe set; otherwise it grows by its encoding.
C9_NoOpOnSafePath ==
    (ncalled /\ "?" \notin Range(nin.path) /\ nin.query = <<>>) =>
        /\ nreq.query = <<>>
        /\ (Range(nin.path) \subseteq (AlwaysSafe \cup Safe)) => nreq.path = nin.path
        /\ (~(Range(nin.path) \subseteq (AlwaysSafe \cup Safe))) =>
              (Len(nreq.path) > Len(nin.path) /\ "%" \in Range(nreq.path))

C9_Witness ==
    /\ ncalled
    /\ nin.query = <<>>
    /\ nin.path = <<"/", "(", "a", ")">>
    /\ nreq.path = <<"/", "(", "a", ")">>
    /\ nreq.query = <<>>

-----------------------------------------------------------------------------
(* The client configuration *)

HTTP_PORT == 80
HTTPS_PORT == 443
DefaultTimeout == 65

\* str.lower() of the protocol names the model uses
ProtocolLower(p) == IF p = "HTTPS" THEN "https" ELSE IF p = "HTTP" THEN "http" ELSE p

\* lines 82-100 without the os.path.isfile test
should_use_httplib_any_cert(win, cert_file, isfile) ==
    IF win /\ cert_file # None THEN FALSE ELSE TRUE

\* should_use_httplib, lines 81-102: False only on Windows with a
\* certificate reference that is not an existing file
should_use_httplib(win, cert_file, isfile) ==
    IF win /\ cert_file # None /\ ~isfile THEN FALSE ELSE TRUE

\* __init__, lines 66-79
NewClient(session, win, cert_file, isfile, user_agent) ==
    [cert_file       |-> cert_file,
     protocol        |-> "https",
     proxy_host      |-> None,
     proxy_port      |-> None,
     proxy_user      |-> None,
     proxy_password  |-> None,
     request_session |-> session,
     timeout         |-> DefaultTimeout,
     user_agent      |-> user_agent,
     use_httplib     |-> IF session # None THEN TRUE
                         ELSE should_use_httplib(win, cert_file, isfile)]

\* set_proxy, lines 104-120
set_proxy(client, host, port, user, password) ==
    [client EXCEPT !.proxy_host = host, !.proxy_port = port,
                   !.proxy_user = user, !.proxy_password = password]

Session == <<"session">>
CertFile == <<"c", ".", "p", "e", "m">>
ProxyHost == <<"p", "x">>
ProxyPort == <<"8">>
ProxyUser == <<"u">>
ProxyPassword == <<"p", "w">>

UserAgent == <<"u", "a">>

Env(session, win, cert_file, isfile, user_agent) ==
    [session |-> session, win |-> win, cert_file |-> cert_file, isfile |-> isfile,
     user_agent |-> user_agent]

\* the environments of the request loop: a certificate file, an injected
\* session with the default (empty) user agent, and Windows with a
\* certificate-store reference
LoopEnvs ==
    {Env(None, FALSE, CertFile, TRUE, UserAgent),
     Env(Session, FALSE, None, FALSE, <<>>),
     Env(None, TRUE, CertFile, FALSE, UserAgent)}

ClientOf(e) == NewClient(e.session, e.win, e.cert_file, e.isfile, e.user_agent)

\* the clients a program can have in an environment: as built, then with a
\* proxy, or with a proxy with credentials
ClientsIn(e) ==
    {ClientOf(e),
     set_proxy(ClientOf(e), ProxyHost, ProxyPort, None, None),
     set_proxy(ClientOf(e), ProxyHost, ProxyPort, ProxyUser, ProxyPassword)}

Clients == UNION {ClientsIn(e) : e \in LoopEnvs}

-----------------------------------------------------------------------------
(* Connections *)

\* resp.length of a response that declares no length (None in the code)
NoLength == -1

\* the argument of resp.read: NotRead while read was not called, NoLength
\* for read() without argument
NotRead == -2

NoResp == [status |-> 0, reason |-> "", headers |-> <<>>, length |-> NoLength, data |-> <<>>]

\* int() of a string of digits
DigitVal(c) ==
    CASE c = "0" -> 0 [] c = "1" -> 1 [] c = "2" -> 2 [] c = "3" -> 3
      [] c = "5" -> 5 [] c = "6" -> 6 [] c = "8" -> 8
RECURSIVE IntOfStr(_)
IntOfStr(s) ==
    IF s = <<>> THEN 0 ELSE 10 * IntOfStr(SubSeq(s, 1, Len(s) - 1)) + DigitVal(s[Len(s)])
int(v) == IntOfStr(v)

\* str.rpartition(':') when ':' is in s
rpartition(s, c) ==
    LET i == LastIndexOf(s, c)
    IN  <<SubSeq(s, 1, i - 1), <<c>>, SubSeq(s, i + 1, Len(s))>>

\* lines 132-134 (and 124-126)
ProtocolOf(req) ==
    ProtocolLower(IF req.protocol_override # "" THEN req.protocol_override
                  ELSE cfg.protocol)

\* lines 171-175: the headers argument of set_tunnel, None or the one-entry
\* dict as <<key, value>>.  The base64 text is kept as the pair it encodes.
TunnelHeaders ==
    IF cfg.proxy_user # None /\ cfg.proxy_password # None
    THEN <<"Proxy-Authorization", <<"Basic", cfg.proxy_user, cfg.proxy_password>>>>
    ELSE None

\* a connection object right after its constructor
Connection(kind, host, port, protocol) ==
    [kind      |-> kind,
     host      |-> host,
     port      |-> port,
     protocol  |-> protocol,
     cert_file |-> cfg.cert_file,
     timeout   |-> cfg.timeout,
     tunnel    |-> None,
     proxy_credentials |-> None,
     buffer    |-> <<>>,
     sent      |-> <<>>,
     body_sent |-> <<>>,
     served    |-> NoResp,
     read_arg  |-> NotRead,
     delivered |-> None,
     closes    |-> 0]

\* line 176 without the headers argument
WithTunnelNoHeaders(c, host, port, headers) ==
    [c EXCEPT !.tunnel = <<host, port, None>>]

\* connection.set_tunnel(host, port, headers): <<host, port, headers>>
WithTunnel(c, host, port, headers) ==
    [c EXCEPT !.tunnel = <<host, port, headers>>]

\* get_connection, lines 130-178: the connection object it returns
get_connection(req) ==
    LET protocol    == ProtocolOf(req)
        target_port == IF protocol = "http" THEN HTTP_PORT ELSE HTTPS_PORT
        hasPort     == ":" \in Range(req.host)
        sock_host   == IF hasPort THEN rpartition(req.host, ":")[1] ELSE req.host
        sock_port   == IF hasPort THEN int(rpartition(req.host, ":")[3]) ELSE target_port
    IN  IF cfg.request_session # None
        THEN LET c == Connection("requests", req.host, target_port, protocol)
             IN  IF cfg.proxy_host # None
                 THEN WithTunnel(c, cfg.proxy_host, int(cfg.proxy_port), TunnelHeaders)
                 ELSE c
        ELSE IF ~cfg.use_httplib
        THEN LET c == Connection("winhttp", req.host, target_port, protocol)
             IN  IF cfg.proxy_host # None
                 THEN WithTunnel(c, cfg.proxy_host, int(cfg.proxy_port), TunnelHeaders)
                 ELSE c
        ELSE IF cfg.proxy_host # None
             THEN WithTunnel(Connection("socket", cfg.proxy_host, int(cfg.proxy_port), protocol),
                             sock_host, sock_port, TunnelHeaders)
             ELSE Connection("socket", sock_host, sock_port, protocol)

-----------------------------------------------------------------------------
(* What the server answers *)

Statuses == {200, 299, 300, 307, 404}

ReasonOf(status) ==
    CASE status = 200 -> "OK"
      [] status = 299 -> "Custom"
      [] status = 300 -> "Multiple Choices"
      [] status = 307 -> "Temporary Redirect"
      [] status = 404 -> "Not Found"

LocationName == <<"l", "o", "c", "a", "t", "i", "o", "n">>
LocationMixed == <<"L", "o", "c", "a", "t", "i", "o", "n">>
XIdName == <<"X", "-", "I", "d">>

\* 'https://h2/n b' and 'http://H2:8/n?x=1'
Location1 == <<"h", "t", "t", "p", "s", ":", "/", "/", "h", "2", "/", "n", " ", "b">>
Location2 == <<"h", "t", "t", "p", ":", "/", "/", "H", "2", ":", "8", "/", "n", "?", "x", "=", "1">>

\* the header lists resp.getheaders() returns
HeaderLists ==
    {<<<<XIdName, <<"A", "1">>>>>>,
     <<<<LocationMixed, Location1>>, <<XIdName, <<"A", "1">>>>>>,
     <<<<XIdName, <<"B">>>>, <<LocationName, Location2>>>>}

Data == SeqsUpTo({"b"}, MaxBody)

\* the declared length and the bytes of the stream
Bodies ==
    {[length |-> NoLength, data |-> d] : d \in Data}
    \cup {[length |-> Len(d), data |-> d] : d \in Data}

\* a 307 answer of the server has no body: no length or length 0
RedirectBodies == {b \in Bodies : b.data = <<>>}

HasLocation(h) == \E i \in DOMAIN h : h[i][1] \in {LocationName, LocationMixed}

\* the responses the server may give to a hop at the given depth; at MaxHops
\* it no longer answers 307 with a location
Responses(depth) ==
    UNION {{[status |-> st, reason |-> ReasonOf(st), headers |-> h,
             length |-> b.length, data |-> b.data] :
                h \in (IF st = 307 /\ depth >= MaxHops
                       THEN {l \in HeaderLists : ~HasLocation(l)} ELSE HeaderLists),
                b \in (IF st = 307 THEN RedirectBodies ELSE Bodies)} :
           st \in Statuses}

\* the responses the server gives while two calls run concurrently: success,
\* redirect and error, with and without a location, without a body; it
\* redirects each call once at most
ConcurrentResponses(depth) ==
    {r \in Responses(depth) :
        /\ r.status \in {200, 307, 404}
        /\ (r.status = 307 /\ HasLocation(r.headers)) => depth = 1
        /\ r.headers \in {<<<<XIdName, <<"A", "1">>>>>>,
                          <<<<LocationMixed, Location1>>, <<XIdName, <<"A", "1">>>>>>}
        /\ r.length = 0}

-----------------------------------------------------------------------------
(* urlparse and dict *)

\* index of the first character of s that is in cs, Len(s) + 1 when none is
FirstOf(s, cs) ==
    IF \E i \in DOMAIN s : s[i] \in cs
    THEN CHOOSE i \in DOMAIN s : s[i] \in cs /\ \A j \in 1..(i - 1) : s[j] \notin cs
    ELSE Len(s) + 1

StartsWith(s, prefix) ==
    Len(s) >= Len(prefix) /\ SubSeq(s, 1, Len(prefix)) = prefix

\* urlparse(url): the text after 'scheme:', the netloc after '//' up to the
\* next '/', '?' or '#', and the path up to the next '?' or '#'
UrlAfterScheme(url) ==
    IF IndexOf(url, ":") > 1 /\ (\A j \in 1..(IndexOf(url, ":") - 1) : url[j] \in AlwaysSafe)
    THEN SubSeq(url, IndexOf(url, ":") + 1, Len(url)) ELSE url

UrlNetloc(url) ==
    LET rest == UrlAfterScheme(url)
    IN  IF StartsWith(rest, <<"/", "/">>)
        THEN SubSeq(rest, 3, FirstOf(SubSeq(rest, 3, Len(rest)), {"/", "?", "#"}) + 1)
        ELSE <<>>

UrlAfterNetloc(url) ==
    LET rest == UrlAfterScheme(url)
    IN  IF StartsWith(rest, <<"/", "/">>)
        THEN SubSeq(rest, 3 + Len(UrlNetloc(url)), Len(rest))
        ELSE rest

\* urlparse(url).path
UrlPath(url) ==
    LET rest == UrlAfterNetloc(url)
    IN  SubSeq(rest, 1, FirstOf(rest, {"?", "#"}) - 1)

\* urlparse(url).hostname: the netloc without user info and port, lowercased,
\* None when empty
UrlHostname(url) ==
    LET netloc == UrlNetloc(url)
        hostport == SubSeq(netloc, LastIndexOf(netloc, "@") + 1, Len(netloc))
        host == IF ":" \in Range(hostport) THEN partition(hostport, ":")[1] ELSE hostport
    IN  IF host = <<>> THEN None ELSE lower(host)

\* key in dict(pairs)
DictHas(pairs, key) == \E i \in DOMAIN pairs : pairs[i][1] = key

\* dict(pairs)[key]: the value of the last pair with that key
DictGet(pairs, key) ==
    pairs[CHOOSE i \in DOMAIN pairs :
             pairs[i][1] = key /\ \A j \in (i + 1)..Len(pairs) : pairs[j][1] # key][2]

-----------------------------------------------------------------------------
(* The requests callers hand to perform_request *)

Host1 == <<"h", "1">>
Host1Port == <<"h", "1", ":", "8", "0", "8", "0">>

\* caller-supplied header lists: one with an empty and a None value, one
\* that carries a Host header of its own
RequestHeaders ==
    <<<<"x-ms-version", <<"1">>>>, <<"Content-Length", <<>>>>, <<"If-Match", None>>>>
RequestHeadersWithHost ==
    <<<<"Host", <<"h", "x">>>>, <<"x-ms-version", <<"1">>>>>>

\* a Request whose path and query went through _update_request_uri_query
NewRequest(host, body, protocol_override, headers) ==
    [method  |-> "GET",
     host    |-> host,
     path    |-> update_request_uri_query(<<"/", "a", "?", "x", "=", "1">>,
                                          <<<<<<"y">>, <<" ">>>>>>)[1],
     query   |-> update_request_uri_query(<<"/", "a", "?", "x", "=", "1">>,
                                          <<<<<<"y">>, <<" ">>>>>>)[2],
     headers |-> headers,
     body    |-> body,
     protocol_override |-> protocol_override]

Requests ==
    {NewRequest(Host1, None, "", RequestHeaders),
     NewRequest(Host1Port, <<"d">>, "", RequestHeadersWithHost),
     NewRequest(Host1, <<"d">>, "HTTP", RequestHeaders)}

-----------------------------------------------------------------------------
(* perform_request *)

NewFrame(conn) ==
    [conn |-> conn, pc |-> "putrequest", status |-> 0, message |-> "",
     respheaders |-> <<>>, respbody |-> None]

Top == stack[Len(stack)]

Running == phase = "running" /\ stack # <<>>

At(pc) == Running /\ Top.pc = pc

SetTop(f) == [stack EXCEPT ![Len(stack)] = f]

Log(op) == Append(events, [conn |-> Top.conn, op |-> op, depth |-> Len(stack)])

Result(kind, status, reason, headers, body) ==
    [kind |-> kind, status |-> status, reason |-> reason,
     headers |-> headers, body |-> body]

\* line 234 with a pool: the connection of the previous hop is handed out again
AcquirePooled(req) ==
    IF conns = <<>> THEN <<Append(conns, get_connection(req)), Len(conns) + 1>>
    ELSE <<conns, Len(conns)>>

\* line 234: connection = self.get_connection(request); the connections
\* that exist afterwards and the identity of the new one
AcquireConnection(req) ==
    <<Append(conns, get_connection(req)), Len(conns) + 1>>

\* entry of perform_request(req) from the given stack of callers
Enter(req, callers) ==
    /\ conns' = AcquireConnection(req)[1]
    /\ stack' = Append(callers, NewFrame(AcquireConnection(req)[2]))
    /\ events' = Append(events, [conn |-> AcquireConnection(req)[2],
                                 op |-> "get_connection", depth |-> Len(callers) + 1])

\* the caller calls perform_request(request)
PerformRequest ==
    /\ phase = "idle"
    /\ request \in Requests
    /\ phase' = "running"
    /\ Enter(request, stack)
    /\ UNCHANGED <<cfg, request, outcome, normVars, env, other>>

\* str(port)
DigitStr(d) ==
    CASE d = 0 -> "0" [] d = 1 -> "1" [] d = 2 -> "2" [] d = 3 -> "3" [] d = 4 -> "4"
      [] d = 5 -> "5" [] d = 6 -> "6" [] d = 7 -> "7" [] d = 8 -> "8" [] d = 9 -> "9"
RECURSIVE str(_)
str(n) == IF n < 10 THEN <<DigitStr(n)>> ELSE str(n \div 10) \o <<DigitStr(n % 10)>>

\* the Host line the socket transport's putrequest puts in its buffer: the
\* tunnel target when a tunnel is set, else the connection's host, with the
\* port when it is not the protocol's default
DefaultHostLine(c) ==
    LET h == IF c.tunnel # None THEN c.tunnel[1] ELSE c.host
        p == IF c.tunnel # None THEN c.tunnel[2] ELSE c.port
        dflt == IF c.protocol = "http" THEN HTTP_PORT ELSE HTTPS_PORT
    IN  <<"Host", IF p = dflt THEN h ELSE h \o <<":">> \o str(p)>>

\* lines 238-239 without the test of use_httplib
NeedsProxyCredentialsAnyVariant ==
    cfg.proxy_host # None /\ cfg.proxy_user # None

\* lines 238-239: the condition under which set_proxy_credentials is called
NeedsProxyCredentials ==
    ~cfg.use_httplib /\ cfg.proxy_host # None /\ cfg.proxy_user # None

\* line 236: connection.putrequest(request.method, request.path)
PutRequest ==
    /\ At("putrequest")
    /\ conns' = [conns EXCEPT ![Top.conn].buffer =
                    IF conns[Top.conn].kind = "socket"
                    THEN @ \o <<<<request.method, request.path>>,
                                DefaultHostLine(conns[Top.conn])>>
                    ELSE @ \o <<<<request.method, request.path>>>>]
    /\ events' = Log("putrequest")
    /\ stack' = SetTop([Top EXCEPT !.pc =
                    IF NeedsProxyCredentials THEN "creds" ELSE "headers"])
    /\ UNCHANGED <<cfg, request, outcome, phase, normVars, env, other>>

\* lines 238-241: connection.set_proxy_credentials(user, password)
SetProxyCredentials ==
    /\ At("creds")
    /\ conns' = [conns EXCEPT ![Top.conn].proxy_credentials =
                    <<cfg.proxy_user, cfg.proxy_password>>]
    /\ events' = Log("set_proxy_credentials")
    /\ stack' = SetTop([Top EXCEPT !.pc = "headers"])
    /\ UNCHANGED <<cfg, request, outcome, phase, normVars, env, other>>

\* list.remove(x): without the first element equal to x
RemoveFirst(buf, x) ==
    LET i == CHOOSE k \in DOMAIN buf : buf[k] = x /\ \A j \in 1..(k - 1) : buf[j] # x
    IN  SubSeq(buf, 1, i - 1) \o SubSeq(buf, i + 1, Len(buf))

\* lines 183-185: the for loop over connection._buffer that removes the
\* lines starting with 'Host: ' from the list it iterates, from index idx on
RECURSIVE RemoveHostLines(_, _)
RemoveHostLines(buf, idx) ==
    IF idx > Len(buf) THEN buf
    ELSE IF buf[idx][1] = "Host"
         THEN RemoveHostLines(RemoveFirst(buf, buf[idx]), idx + 1)
         ELSE RemoveHostLines(buf, idx + 1)

\* line 191 as 'if value is not None'
IsNotNone(pair) == pair[2] # None

\* line 191: if value
IsTruthy(pair) == pair[2] # <<>> /\ pair[2] # None

\* lines 180-195 without the removal of the Host lines in the buffer
HeadersWrittenNoRemoval(c, request_headers) ==
    (IF cfg.use_httplib /\ cfg.proxy_host # None /\ cfg.request_session = None
     THEN c.buffer \o <<<<"Host", c.tunnel[1] \o <<":">> \o str(c.tunnel[2])>>>>
     ELSE c.buffer)
    \o SelectSeq(request_headers, IsTruthy)
    \o <<<<"User-Agent", cfg.user_agent>>>>

\* send_request_headers, lines 180-195: the header lines in the buffer when
\* endheaders is called
HeadersWritten(c, request_headers) ==
    (IF cfg.use_httplib /\ cfg.proxy_host # None /\ cfg.request_session = None
     THEN RemoveHostLines(c.buffer, 1)
          \o <<<<"Host", c.tunnel[1] \o <<":">> \o str(c.tunnel[2])>>>>
     ELSE c.buffer)
    \o SelectSeq(request_headers, IsTruthy)
    \o <<<<"User-Agent", cfg.user_agent>>>>

\* line 243: self.send_request_headers(connection, request.headers)
SendRequestHeaders ==
    /\ At("headers")
    /\ conns' = [conns EXCEPT ![Top.conn].sent = HeadersWritten(conns[Top.conn], request.headers),
                              ![Top.conn].buffer = <<>>]
    /\ events' = Log("send_request_headers")
    /\ stack' = SetTop([Top EXCEPT !.pc = "body"])
    /\ UNCHANGED <<cfg, request, outcome, phase, normVars, env, other>>

\* send_request_body, lines 197-203: what connection.send is called with,
\* <<>> when it is not called
BodySent(c, request_body) ==
    IF request_body # None /\ request_body # <<>> THEN <<request_body>>
    ELSE IF c.kind # "socket" THEN <<None>>
    ELSE <<>>

\* line 244: self.send_request_body(connection, request.body)
SendRequestBody ==
    /\ At("body")
    /\ conns' = [conns EXCEPT ![Top.conn].body_sent = BodySent(conns[Top.conn], request.body)]
    /\ events' = Log("send_request_body")
    /\ stack' = SetTop([Top EXCEPT !.pc = "getresponse"])
    /\ UNCHANGED <<cfg, request, outcome, phase, normVars, env, other>>

\* lines 259-260 with the value lowercased in place of the name
LowerValues(headers) ==
    [i \in DOMAIN headers |-> <<headers[i][1], lower(headers[i][2])>>]

\* lines 259-260: every header name lowercased, values and order kept
LowerNames(headers) ==
    [i \in DOMAIN headers |-> <<lower(headers[i][1]), headers[i][2]>>]

\* lines 253-260: resp = connection.getresponse(), status, message and the
\* header list with lowercased names
GetResponse ==
    /\ At("getresponse")
    /\ \E resp \in (IF other = NoThread THEN Responses(Len(stack))
                     ELSE ConcurrentResponses(Len(stack))) :
         /\ conns' = [conns EXCEPT ![Top.conn].served = resp]
         /\ stack' = SetTop([Top EXCEPT !.pc = "read",
                                        !.status = resp.status,
                                        !.message = resp.reason,
                                        !.respheaders = LowerNames(resp.headers)])
    /\ events' = Log("getresponse")
    /\ UNCHANGED <<cfg, request, outcome, phase, normVars, env, other>>

\* resp.read(n): the first n bytes of the stream, resp.read(): all of it
read(data, n) ==
    IF n = NoLength \/ n >= Len(data) THEN data ELSE SubSeq(data, 1, n)

\* lines 262-266 with a length of 0 treated like no length
ReadArgFalsy(length) ==
    IF length = NoLength \/ length = 0 THEN NoLength
    ELSE IF length > 0 THEN length
    ELSE NotRead

\* lines 262-266: the argument resp.read is called with, NotRead when it is
\* not called
ReadArg(length) ==
    IF length = NoLength THEN NoLength
    ELSE IF length > 0 THEN length
    ELSE NotRead

\* lines 262-266: the body is read per the declared length
ReadBody ==
    /\ At("read")
    /\ LET resp == conns[Top.conn].served
           arg  == ReadArg(resp.length)
           body == IF arg = NotRead THEN None ELSE read(resp.data, arg)
       IN  /\ conns' = [conns EXCEPT ![Top.conn].read_arg = arg,
                                     ![Top.conn].delivered = body]
           /\ stack' = SetTop([Top EXCEPT !.pc = "dispatch", !.respbody = body])
    /\ events' = IF ReadArg(conns[Top.conn].served.length) = NotRead THEN events
                 ELSE Log("read")
    /\ UNCHANGED <<cfg, request, outcome, phase, normVars, env, other>>

\* line 277 taking every 3xx status for a redirect
IsRedirectAny3xx(status) == status >= 300 /\ status < 400

\* line 277
IsRedirect(status) == status = 307

\* lines 278-281 without the assignment to request.host
RedirectedKeepHost(req, location) ==
    [req EXCEPT !.path  = update_request_uri_query(UrlPath(location), req.query)[1],
                !.query = update_request_uri_query(UrlPath(location), req.query)[2]]

\* lines 278-281 with the normalizer run a second time on its own result
RedirectedTwice(req, location) ==
    LET once == update_request_uri_query(UrlPath(location), req.query)
    IN  [req EXCEPT !.host  = UrlHostname(location),
                    !.path  = update_request_uri_query(once[1], once[2])[1],
                    !.query = update_request_uri_query(once[1], once[2])[2]]

\* lines 278-281 with the host taken from netloc, port included
RedirectedNetloc(req, location) ==
    [req EXCEPT !.host  = lower(UrlNetloc(location)),
                !.path  = update_request_uri_query(UrlPath(location), req.query)[1],
                !.query = update_request_uri_query(UrlPath(location), req.query)[2]]

\* lines 278-281: the request after host and path are taken from the
\* location URL and the query normalizer has run
Redirected(req, location) ==
    [req EXCEPT !.host  = UrlHostname(location),
                !.path  = update_request_uri_query(UrlPath(location), req.query)[1],
                !.query = update_request_uri_query(UrlPath(location), req.query)[2]]

\* lines 277-282 with a redirect limit: a 307 is not followed and is reported
\* like any other status >= 300
RedirectCapped ==
    /\ At("dispatch")
    /\ IsRedirect(Top.status)
    /\ outcome' = Result("HTTPError", Top.status, Top.message, Top.respheaders, Top.respbody)
    /\ stack' = SetTop([Top EXCEPT !.pc = "finally"])
    /\ UNCHANGED <<cfg, request, conns, events, phase, normVars, env, other>>

\* lines 277-282 and 234: on 307 the request is rewritten and perform_request
\* calls itself from inside the try block; without a 'location' header the
\* dict lookup raises KeyError
Redirect ==
    /\ At("dispatch")
    /\ IsRedirect(Top.status)
    /\ \/ /\ DictHas(Top.respheaders, LocationName)
          /\ request' = Redirected(request, DictGet(Top.respheaders, LocationName))
          /\ Enter(request', SetTop([Top EXCEPT !.pc = "call"]))
          /\ UNCHANGED <<cfg, outcome, phase, normVars, env, other>>
       \/ /\ ~DictHas(Top.respheaders, LocationName)
          /\ outcome' = Result("KeyError", 0, "", <<>>, None)
          /\ stack' = SetTop([Top EXCEPT !.pc = "finally"])
          /\ UNCHANGED <<cfg, request, conns, events, phase, normVars, env, other>>

\* lines 283-284: raise HTTPError(status, message, respheaders, respbody)
RaiseHTTPError ==
    /\ At("dispatch")
    /\ ~IsRedirect(Top.status)
    /\ Top.status >= 300
    /\ outcome' = Result("HTTPError", Top.status, Top.message, Top.respheaders, Top.respbody)
    /\ stack' = SetTop([Top EXCEPT !.pc = "finally"])
    /\ UNCHANGED <<cfg, request, conns, events, phase, normVars, env, other>>

\* lines 275-276 and 286: return HTTPResponse(status, resp.reason,
\* respheaders, respbody)
ReturnResponse ==
    /\ At("dispatch")
    /\ ~IsRedirect(Top.status)
    /\ ~(Top.status >= 300)
    /\ outcome' = Result("Response", Top.status, conns[Top.conn].served.reason,
                         Top.respheaders, Top.respbody)
    /\ stack' = SetTop([Top EXCEPT !.pc = "finally"])
    /\ UNCHANGED <<cfg, request, conns, events, phase, normVars, env, other>>

\* the steps of the try block in which the transport can raise
TransportSteps == {"putrequest", "creds", "headers", "body", "getresponse", "read"}

\* a transport error raised by the connection in lines 236-266: it is not
\* caught, so control passes to the finally clause
TransportFails ==
    /\ Running
    /\ Top.pc \in TransportSteps
    /\ outcome' = Result("TransportError", 0, Top.pc, <<>>, None)
    /\ events' = Log("raise")
    /\ stack' = SetTop([Top EXCEPT !.pc = "finally"])
    /\ UNCHANGED <<cfg, request, conns, phase, normVars, env, other>>

\* connection.close() left out when the try block raised
CloseUnlessRaised(c) ==
    IF outcome.kind = "Response" THEN [c EXCEPT !.closes = @ + 1] ELSE c

\* line 288: connection.close()
Close(c) == [c EXCEPT !.closes = @ + 1]

\* lines 287-288: the finally clause closes this activation's connection;
\* the return value or exception then passes to the caller, whose own
\* finally clause runs next
Finally ==
    /\ At("finally")
    /\ conns' = [conns EXCEPT ![Top.conn] = Close(@)]
    /\ events' = Log("close")
    /\ IF Len(stack) > 1
       THEN /\ stack' = [SubSeq(stack, 1, Len(stack) - 1)
                            EXCEPT ![Len(stack) - 1].pc = "finally"]
            /\ phase' = phase
       ELSE /\ stack' = <<>>
            /\ phase' = "done"
    /\ UNCHANGED <<cfg, request, outcome, normVars, env, other>>

-----------------------------------------------------------------------------
(* The request loop *)

IdleNorm ==
    /\ nreq = [path |-> <<>>, query |-> <<>>]
    /\ nin = [base |-> <<>>, inline |-> FALSE, segs |-> <<>>, path |-> <<>>, query |-> <<>>]
    /\ ncalled = FALSE

Init ==
    /\ env \in LoopEnvs
    /\ cfg \in ClientsIn(env)
    /\ other = NoThread
    /\ request \in Requests
    /\ stack = <<>>
    /\ conns = <<>>
    /\ events = <<>>
    /\ outcome = NoOutcome
    /\ phase = "idle"
    /\ IdleNorm

Next ==
    \/ PerformRequest
    \/ PutRequest
    \/ SetProxyCredentials
    \/ SendRequestHeaders
    \/ SendRequestBody
    \/ GetResponse
    \/ ReadBody
    \/ Redirect
    \/ RaiseHTTPError
    \/ ReturnResponse
    \/ TransportFails
    \/ Finally

Spec == Init /\ [][Next]_vars

-----------------------------------------------------------------------------
(* Properties of perform_request, checked under Spec *)

\* the activation that acquired connection i has not yet left its finally clause
Live(i) == \E k \in DOMAIN stack : stack[k].conn = i

EventsOn(i, op) == {k \in DOMAIN events : events[k].conn = i /\ events[k].op = op}

LastConn == conns[Len(conns)]

\* C1: close() is called exactly once on the connection of every invocation
\* by the time the invocation returns or raises, whatever the outcome, and
\* never while the invocation is still running.
C1_ClosedExactlyOnce ==
    \A i \in DOMAIN conns :
        /\ conns[i].closes = Cardinality(EventsOn(i, "close"))
        /\ Live(i) => conns[i].closes = 0
        /\ ~Live(i) => conns[i].closes = 1

C1_Witness ==
    /\ phase = "done"
    /\ outcome.kind = "KeyError"
    /\ Len(conns) = 2
    /\ \A i \in DOMAIN conns : conns[i].closes = 1

\* C2: at every point of a perform_request call at most one connection
\* opened by that call is open and not yet closed.
C2_AtMostOneOpen ==
    Cardinality({i \in DOMAIN conns : conns[i].closes = 0}) <= 1

\* name is the lowercase form of raw
IsLowerOf(name, raw) ==
    /\ Len(name) = Len(raw)
    /\ \A j \in DOMAIN raw :
          IF raw[j] \in UpperChars
          THEN name[j] = LowerOfUpper[raw[j]]
          ELSE name[j] = raw[j]

\* headers is the raw header list with each name lowercased, values, length
\* and order kept
IsLoweredList(headers, raw) ==
    /\ Len(headers) = Len(raw)
    /\ \A i \in DOMAIN raw :
          /\ IsLowerOf(headers[i][1], raw[i][1])
          /\ headers[i][2] = raw[i][2]

\* C3: for a transport response with status in [200, 300) the call returns a
\* Response with the transport's status, reason and body and the transport's
\* header list with lowercased names.
C3_SuccessResponse ==
    /\ outcome.kind = "Response" =>
          /\ LastConn.served.status \in 200..299
          /\ outcome.status = LastConn.served.status
          /\ outcome.reason = LastConn.served.reason
          /\ outcome.body = LastConn.delivered
          /\ IsLoweredList(outcome.headers, LastConn.served.headers)
    /\ (phase = "done" /\ LastConn.served.status \in 200..299
            /\ outcome.kind # "TransportError") => outcome.kind = "Response"

C3_Witness ==
    /\ phase = "done"
    /\ outcome.kind = "Response"
    /\ outcome.status = 299
    /\ LastConn.served.headers = <<<<LocationMixed, Location1>>, <<XIdName, <<"A", "1">>>>>>
    /\ outcome.headers = <<<<LocationName, Location1>>, <<<<"x", "-", "i", "d">>, <<"A", "1">>>>>>
    /\ outcome.body = <<"b">>

\* every operation after the response of connection i is a read or a close
\* (or the raise of a failed read), on a connection that existed by then
NothingSentAfterResponse(i) ==
    \A k \in EventsOn(i, "getresponse") :
        \A m \in (k + 1)..Len(events) :
            events[m].op \in {"read", "raise", "close"}

\* C4: for a transport response with status >= 300 other than 307 the call
\* fails with an HTTPError carrying its status, reason, lowercased-name
\* headers and body, and after that response no connection is opened and
\* no request is sent.
C4_HTTPErrorNoRetry ==
    /\ outcome.kind = "HTTPError" =>
          /\ LastConn.served.status >= 300 /\ LastConn.served.status # 307
          /\ outcome.status = LastConn.served.status
          /\ outcome.reason = LastConn.served.reason
          /\ outcome.body = LastConn.delivered
          /\ IsLoweredList(outcome.headers, LastConn.served.headers)
    /\ \A i \in DOMAIN conns :
          (conns[i].served.status >= 300 /\ conns[i].served.status # 307) =>
              (i = Len(conns) /\ NothingSentAfterResponse(i))
    /\ (phase = "done" /\ LastConn.served.status >= 300 /\ LastConn.served.status # 307
            /\ outcome.kind # "TransportError") => outcome.kind = "HTTPError"

C4_Witness ==
    /\ phase = "done"
    /\ outcome.kind = "HTTPError"
    /\ outcome.status = 300
    /\ Len(conns) = 1
    /\ LastConn.served.headers = <<<<LocationMixed, Location1>>, <<XIdName, <<"A", "1">>>>>>
    /\ outcome.headers = <<<<LocationName, Location1>>, <<<<"x", "-", "i", "d">>, <<"A", "1">>>>>>

\* the host a connection's requests are addressed to
TargetHost(c) == IF c.kind = "socket" /\ c.tunnel # None THEN c.tunnel[1] ELSE c.host

\* the 'location' value a raw header list carries
RawLocation(raw) ==
    raw[CHOOSE i \in DOMAIN raw : raw[i][1] \in {LocationName, LocationMixed}][2]

\* host and path of the two location URLs the server uses, the path encoded
\* and followed by the request's query pairs y=' ' and x='1'
ExpectedHost(location) == <<"h", "2">>
ExpectedPath(location) ==
    IF location = Location1
    THEN <<"/", "n", "%", "2", "0", "b", "?", "y", "=", "%", "2", "0", "&", "x", "=", "1">>
    ELSE <<"/", "n", "?", "y", "=", "%", "2", "0", "&", "x", "=", "1">>

\* the request line written on a connection, <<>> before putrequest
RequestLine(c) ==
    IF c.buffer # <<>> THEN c.buffer[1] ELSE IF c.sent # <<>> THEN c.sent[1] ELSE <<>>

\* C5: after a 307 with an absolute location URL the next hop goes to that
\* URL's host and path, the result of the call is the outcome of the last
\* hop, and a returned Response never has status 307.
C5_RedirectFollowed ==
    /\ outcome.kind = "Response" => outcome.status # 307
    /\ \A i \in DOMAIN conns :
          i > 1 =>
              /\ conns[i - 1].served.status = 307
              /\ TargetHost(conns[i]) = ExpectedHost(RawLocation(conns[i - 1].served.headers))
              /\ RequestLine(conns[i]) # <<>> =>
                    RequestLine(conns[i]) =
                        <<"GET", ExpectedPath(RawLocation(conns[i - 1].served.headers))>>
    /\ (phase = "done" /\ outcome.kind \in {"Response", "HTTPError"}) =>
          outcome.status = LastConn.served.status

C5_Witness ==
    /\ phase = "done"
    /\ outcome.kind = "Response"
    /\ outcome.status = 200
    /\ Len(conns) = 2
    /\ conns[1].served.status = 307
    /\ conns[1].host = Host1
    /\ conns[2].host = <<"h", "2">>
    /\ conns[2].sent[1] = <<"GET", <<"/", "n", "%", "2", "0", "b", "?", "y", "=", "%", "2", "0", "&", "x", "=", "1">>>>

Acquisitions == {k \in DOMAIN events : events[k].op = "get_connection"}

\* C6: every execution of perform_request obtains a new connection from
\* get_connection exactly once, works only on that connection, nothing but
\* close happens on a connection after its close, and the number of
\* connections opened equals the number of hops.
C6_NoConnectionReuse ==
    /\ \A k, m \in Acquisitions :
          k # m => (events[k].conn # events[m].conn /\ events[k].depth # events[m].depth)
    /\ \A k \in DOMAIN events :
          \E a \in Acquisitions :
              /\ a <= k
              /\ events[a].depth = events[k].depth
              /\ events[a].conn = events[k].conn
    /\ \A k, m \in DOMAIN events :
          (k < m /\ events[k].conn = events[m].conn /\ events[k].op = "close")
              => events[m].op = "close"
    /\ Cardinality(Acquisitions) = Len(conns)
    /\ Cardinality({events[k].depth : k \in DOMAIN events}) = Len(conns)

C6_Witness ==
    /\ phase = "done"
    /\ Len(conns) = 2
    /\ Cardinality(Acquisitions) = 2
    /\ EventsOn(1, "getresponse") # {}
    /\ EventsOn(2, "getresponse") # {}
    /\ EventsOn(1, "close") # {}
    /\ EventsOn(2, "close") # {}

\* C10: the body of the result follows the declared length: without a
\* length everything is read, with a positive length n exactly n bytes are
\* requested, with length 0 nothing is read and the body is None, not empty.
C10_BodyFollowsLength ==
    outcome.kind \in {"Response", "HTTPError"} =>
        LET r == LastConn.served
        IN  /\ r.length = NoLength =>
                  /\ LastConn.read_arg = NoLength
                  /\ outcome.body = r.data
            /\ r.length > 0 =>
                  /\ LastConn.read_arg = r.length
                  /\ outcome.body = SubSeq(r.data, 1, r.length)
            /\ r.length = 0 =>
                  /\ LastConn.read_arg = NotRead
                  /\ EventsOn(Len(conns), "read") = {}
                  /\ outcome.body = None
                  /\ outcome.body # <<>>

C10_Witness ==
    /\ phase = "done"
    /\ outcome.kind = "Response"
    /\ LastConn.served.length = 0
    /\ LastConn.read_arg = NotRead
    /\ outcome.body = None

-----------------------------------------------------------------------------
(* Properties of the headers, the tunnel and the order of operations,     *)
(* checked under Spec                                                     *)

HostLines(lines) == {k \in DOMAIN lines : lines[k][1] = "Host"}

CallerHasHost(req) == \E k \in DOMAIN req.headers : req.headers[k][1] = "Host"

\* host and port the request is really for: the host without its port, the
\* port given with the host or else the default port of the protocol
TrueHost(req) == IF req.host \in {Host1, Host1Port} THEN <<"h", "1">> ELSE <<"h", "2">>
TruePort(req) ==
    IF req.host = Host1Port THEN 8080
    ELSE IF req.protocol_override = "HTTP" THEN 80 ELSE 443
PortText(p) ==
    CASE p = 8080 -> <<"8", "0", "8", "0">> [] p = 80 -> <<"8", "0">> [] p = 443 -> <<"4", "4", "3">>

C12_AtMostOneHost ==
    \A i \in DOMAIN conns : Cardinality(HostLines(conns[i].sent)) <= 1

\* the place of an operation in a hop
Rank(op) ==
    CASE op = "get_connection" -> 0
      [] op = "putrequest" -> 1
      [] op = "set_proxy_credentials" -> 2
      [] op = "send_request_headers" -> 3
      [] op = "send_request_body" -> 4
      [] op = "getresponse" -> 5
      [] op = "read" -> 6
      [] op = "raise" -> 7
      [] op = "close" -> 8

\* the variant has no proxy authentication of its own and a proxy with
\* credentials is configured
LacksProxyAuthAndHasCredentials(c) ==
    c.kind = "winhttp" /\ cfg.proxy_host # None /\ cfg.proxy_user # None

\* C15: the operations on a hop's connection occur in the order request
\* line, proxy credentials (if and only if the variant lacks native proxy
\* authentication and a proxy with credentials is configured), headers,
\* body, getresponse, read, close; nothing is written before the request
\* line, no credentials are set after a header, nothing follows close.
C15_OrderWithinHop ==
    /\ \A k, m \in DOMAIN events :
          (k < m /\ events[k].conn = events[m].conn) =>
              Rank(events[k].op) < Rank(events[m].op)
    /\ \A i \in DOMAIN conns :
          /\ EventsOn(i, "set_proxy_credentials") # {} => LacksProxyAuthAndHasCredentials(conns[i])
          /\ EventsOn(i, "send_request_headers") # {} =>
                /\ EventsOn(i, "putrequest") # {}
                /\ EventsOn(i, "set_proxy_credentials") # {}
                      <=> LacksProxyAuthAndHasCredentials(conns[i])
          /\ EventsOn(i, "send_request_body") # {} => EventsOn(i, "send_request_headers") # {}
          /\ EventsOn(i, "getresponse") # {} => EventsOn(i, "send_request_body") # {}
          /\ EventsOn(i, "read") # {} => EventsOn(i, "getresponse") # {}

C15_Witness ==
    /\ phase = "done"
    /\ Len(conns) = 1
    /\ conns[1].kind = "winhttp"
    /\ conns[1].proxy_credentials = <<ProxyUser, ProxyPassword>>
    /\ Len(events) = 8
    /\ events[3].op = "set_proxy_credentials"
    /\ events[4].op = "send_request_headers"
    /\ events[7].op = "read"
    /\ events[8].op = "close"

CredentialsConfigured == cfg.proxy_user # None /\ cfg.proxy_password # None

\* C16 as stated: with a proxy, for every variant the connection is opened
\* to the proxy address and set_tunnel gets the true target host and port,
\* with a Proxy-Authorization header exactly when credentials are set.
C16_TunnelToTargetEveryVariant ==
    (conns # <<>> /\ cfg.proxy_host # None) =>
        /\ LastConn.host = ProxyHost /\ LastConn.port = 8
        /\ LastConn.tunnel # None
        /\ LastConn.tunnel[1] = TrueHost(request) /\ LastConn.tunnel[2] = TruePort(request)
        /\ (LastConn.tunnel[3] # None) <=> CredentialsConfigured

\* C16 amended: with a proxy, the socket-based variant opens the connection
\* to the proxy address and gives set_tunnel the true target host and port;
\* the session-backed and platform-native variants are created for the
\* request's host and give set_tunnel the proxy's host and port; in every
\* variant set_tunnel is called before anything is written and carries a
\* Proxy-Authorization header exactly when user and password are set.
\* Without a proxy no tunnel is set.
C16_TunnelPerVariant ==
    conns # <<>> =>
        IF cfg.proxy_host # None
        THEN /\ LastConn.tunnel # None
             /\ (LastConn.tunnel[3] # None) <=> CredentialsConfigured
             /\ LastConn.tunnel[3] # None =>
                   LastConn.tunnel[3] = <<"Proxy-Authorization", <<"Basic", ProxyUser, ProxyPassword>>>>
             /\ IF LastConn.kind = "socket"
                THEN /\ LastConn.host = ProxyHost /\ LastConn.port = 8
                     /\ LastConn.tunnel[1] = TrueHost(request)
                     /\ LastConn.tunnel[2] = TruePort(request)
                ELSE /\ LastConn.host = request.host
                     /\ LastConn.tunnel[1] = ProxyHost /\ LastConn.tunnel[2] = 8
        ELSE LastConn.tunnel = None

C16_Witness ==
    /\ Len(conns) = 2
    /\ LastConn.kind = "socket"
    /\ LastConn.host = ProxyHost
    /\ LastConn.tunnel = <<<<"h", "2">>, 443,
                           <<"Proxy-Authorization", <<"Basic", ProxyUser, ProxyPassword>>>>>>
    /\ LastConn.buffer = <<>> /\ LastConn.sent = <<>>

Falsy(v) == v = None \/ v = <<>>
NotFalsy(pair) == ~Falsy(pair[2])

\* C17: the caller's headers are written in the caller's order without
\* exactly those whose value is falsy, then one User-Agent header from the
\* configuration as the last header, in every hop, also when the
\* configured user agent is empty.
C17_HeadersThenUserAgent ==
    (conns # <<>> /\ LastConn.sent # <<>>) =>
        LET sent == LastConn.sent
            kept == SelectSeq(request.headers, NotFalsy)
            from == Len(sent) - Len(kept)
        IN  /\ sent[Len(sent)] = <<"User-Agent", cfg.user_agent>>
            /\ Cardinality({k \in DOMAIN sent : sent[k][1] = "User-Agent"}) = 1
            /\ from >= 1
            /\ SubSeq(sent, from, Len(sent) - 1) = kept
            /\ \A k \in 2..(from - 1) : sent[k][1] = "Host"
            /\ \A k \in DOMAIN request.headers :
                  Falsy(request.headers[k][2]) =>
                      \A m \in DOMAIN sent : sent[m][1] # request.headers[k][1]

C17_Witness ==
    /\ Len(conns) = 2
    /\ cfg.user_agent = <<>>
    /\ request.headers = RequestHeaders
    /\ LastConn.sent = <<<<"GET", request.path>>,
                         <<"x-ms-version", <<"1">>>>,
                         <<"User-Agent", <<>>>>>>

-----------------------------------------------------------------------------
(* Properties of the redirect, checked under Spec *)

\* the query list of the requests: [('y', ' '), ('x', '1')]
InitialQuery == <<<<<<"y">>, <<" ">>>>, <<<<"x">>, <<"1">>>>>>

\* s contains the encoding of a percent sign
HasEncodedPercent(s) ==
    \E k \in 1..(Len(s) - 2) : s[k] = "%" /\ s[k + 1] = "2" /\ s[k + 2] = "5"

\* C19: across redirect hops the request's query list stays the list it was
\* before the first hop, and each hop's path carries every pair once, its
\* value percent-encoded once, after the location's path encoded once.
C19_NoDoubleEncoding ==
    /\ conns # <<>> => request.query = InitialQuery
    /\ \A i \in DOMAIN conns :
          RequestLine(conns[i]) # <<>> =>
              LET path == RequestLine(conns[i])[2]
              IN  /\ QueryPieces(path) = <<<<"y", "=", "%", "2", "0">>, <<"x", "=", "1">>>>
                  /\ ~HasEncodedPercent(path)
                  /\ i > 1 => partition(path, "?")[1] \in
                                  {<<"/", "n", "%", "2", "0", "b">>, <<"/", "n">>}

C19_Witness ==
    /\ phase = "done"
    /\ Len(conns) = 2
    /\ conns[1].served.headers = <<<<XIdName, <<"B">>>>, <<LocationName, Location2>>>>
    /\ request.query = InitialQuery
    /\ RequestLine(conns[1]) =
          <<"GET", <<"/", "a", "?", "y", "=", "%", "2", "0", "&", "x", "=", "1">>>>
    /\ RequestLine(conns[2]) =
          <<"GET", <<"/", "n", "?", "y", "=", "%", "2", "0", "&", "x", "=", "1">>>>

\* the port a connection's requests are addressed to
TargetPort(c) == IF c.kind = "socket" /\ c.tunnel # None THEN c.tunnel[2] ELSE c.port

HasEvent(i, op) == EventsOn(i, op) # {}

\* what the caller's headers and the User-Agent contributed to the lines sent
AfterHostLines(lines) ==
    SubSeq(lines, 1 + Cardinality({k \in DOMAIN lines : k = 1 \/ (k <= 3 /\ lines[k][1] = "Host"
                                                                  /\ \A j \in 2..k : lines[j][1] = "Host")}),
           Len(lines))

RedirectTargetOnly ==
    \A i \in DOMAIN conns :
        i > 1 =>
            /\ conns[i].protocol = conns[1].protocol
            /\ TargetPort(conns[i]) = (IF conns[1].protocol = "http" THEN 80 ELSE 443)
            /\ TargetHost(conns[i]) = <<"h", "2">>
            /\ RequestLine(conns[i]) # <<>> => RequestLine(conns[i])[1] = RequestLine(conns[1])[1]
            /\ HasEvent(i, "send_request_body") => conns[i].body_sent = conns[1].body_sent
            /\ (HasEvent(i, "send_request_headers") /\ ~CallerHasHost(request)) =>
                  AfterHostLines(conns[i].sent) = AfterHostLines(conns[1].sent)

RequestFrame ==
    /\ request'.method = request.method
    /\ request'.headers = request.headers
    /\ request'.body = request.body
    /\ request'.protocol_override = request.protocol_override

\* C20: a redirect rewrites only host and path of the request: method,
\* headers, body and protocol override are the same in every hop, and the
\* scheme, port and query string of the location URL do not reach the next
\* hop, which uses the request's or client's protocol and its default port.
C20_RedirectFrame == [](RedirectTargetOnly) /\ [][RequestFrame]_vars

C20_Witness ==
    /\ phase = "done"
    /\ Len(conns) = 2
    /\ conns[1].served.headers = <<<<XIdName, <<"B">>>>, <<LocationName, Location2>>>>
    /\ conns[1].port = 8080 /\ conns[1].kind = "socket"
    /\ conns[2].host = <<"h", "2">> /\ conns[2].port = 443
    /\ conns[2].protocol = "https"
    /\ conns[2].body_sent = <<<<"d">>>>
    /\ request.body = <<"d">>

-----------------------------------------------------------------------------
(* Transport selection: a client is built, may get a proxy, and            *)
(* get_connection is called for a request                                  *)

\* every combination of injected session, platform, certificate reference
\* and whether that reference is an existing file
AllEnvs ==
    {Env(session, win, cert, isfile, UserAgent) :
        session \in {None, Session}, win \in BOOLEAN,
        cert \in {None, CertFile}, isfile \in BOOLEAN}

InitT ==
    /\ env \in AllEnvs
    /\ cfg = ClientOf(env)
    /\ request \in Requests
    /\ stack = <<>>
    /\ conns = <<>>
    /\ events = <<>>
    /\ outcome = NoOutcome
    /\ phase = "idle"
    /\ other = NoThread
    /\ IdleNorm

\* set_proxy(host, port, user, password), lines 104-120
SetProxy ==
    /\ cfg.proxy_host = None
    /\ \E credentials \in {<<None, None>>, <<ProxyUser, ProxyPassword>>} :
         cfg' = set_proxy(cfg, ProxyHost, ProxyPort, credentials[1], credentials[2])
    /\ UNCHANGED <<request, stack, conns, events, outcome, phase, normVars, env, other>>

\* get_connection(request), lines 130-178
GetConnection ==
    /\ conns = <<>>
    /\ conns' = AcquireConnection(request)[1]
    /\ UNCHANGED <<cfg, request, stack, events, outcome, phase, normVars, env, other>>

NextT == SetProxy \/ GetConnection

SpecT == InitT /\ [][NextT]_vars

\* the variant the selection rule names for an environment
VariantByRule(e) ==
    IF e.session # None THEN "requests"
    ELSE IF e.win /\ e.cert_file # None /\ ~e.isfile THEN "winhttp"
    ELSE "socket"

\* C13: get_connection instantiates the session-backed variant when a
\* session was injected, else the platform-native variant on a native-store
\* platform with a certificate reference that is not an existing file, else
\* the socket-based variant, whatever the proxy settings and the request.
C13_TransportSelection ==
    \A i \in DOMAIN conns : conns[i].kind = VariantByRule(env)

C13_Witness ==
    /\ conns # <<>>
    /\ env.session = None /\ env.win /\ env.cert_file = CertFile /\ ~env.isfile
    /\ cfg.proxy_host = ProxyHost
    /\ request.host = Host1Port
    /\ conns[1].kind = "winhttp"

-----------------------------------------------------------------------------
(* Termination of the redirect loop: the interpreter runs the single call  *)
(* step by step, so a step that can be taken is eventually taken           *)

InitL ==
    /\ env = Env(None, TRUE, CertFile, FALSE, UserAgent)
    /\ cfg \in ClientsIn(env)
    /\ other = NoThread
    /\ request \in Requests
    /\ stack = <<>>
    /\ conns = <<>>
    /\ events = <<>>
    /\ outcome = NoOutcome
    /\ phase = "idle"
    /\ IdleNorm

\* the steps of a call other than following a redirect
Steps ==
    \/ PerformRequest
    \/ PutRequest
    \/ SetProxyCredentials
    \/ SendRequestHeaders
    \/ SendRequestBody
    \/ GetResponse
    \/ ReadBody
    \/ RaiseHTTPError
    \/ ReturnResponse
    \/ TransportFails
    \/ Finally

\* lines 277-278: Redirect can be taken exactly when the activation has its
\* answer and the status is 307
RedirectEnabled == At("dispatch") /\ IsRedirect(Top.status)

\* weak fairness of Redirect, with its enabling condition written as the
\* state predicate above
RedirectTaken == []<>(~RedirectEnabled) \/ []<><<Redirect>>_vars

SpecL == InitL /\ [][Next]_vars /\ WF_vars(Steps) /\ RedirectTaken

\* the current hop has its answer and that answer is a 307 with a location
RedirectAnswered ==
    /\ At("dispatch")
    /\ Top.status = 307
    /\ HasLocation(conns[Top.conn].served.headers)

\* the current hop has its answer and it is not a 307, or a hop has raised
\* or returned
FinalAnswered ==
    /\ Running
    /\ \/ Top.pc = "dispatch" /\ Top.status # 307
       \/ Top.pc = "finally"

\* the outcome is the one of the last hop
OutcomeOfLastHop ==
    /\ outcome.kind \in {"Response", "HTTPError"} =>
          /\ outcome.status = LastConn.served.status
          /\ outcome.status # 307
          /\ outcome.body = LastConn.delivered
    /\ outcome.kind = "KeyError" =>
          /\ LastConn.served.status = 307
          /\ ~HasLocation(LastConn.served.headers)

\* the call has returned although its last hop was answered, without a
\* transport error, by a 307 with a location
ReturnedOnRedirect ==
    /\ phase = "done"
    /\ outcome.kind # "TransportError"
    /\ LastConn.served.status = 307
    /\ HasLocation(LastConn.served.headers)

-----------------------------------------------------------------------------
(* Two concurrent perform_request calls on one client: the variables       *)
(* request, stack, events, outcome and phase are those of the thread that  *)
(* runs, other holds those of the thread that is suspended                 *)

Thread(id, req, frames, evs, result, ph) ==
    [id |-> id, request |-> req, stack |-> frames, events |-> evs,
     outcome |-> result, phase |-> ph]

\* the interpreter suspends the running thread and resumes the other one;
\* the client and the connection objects are shared, everything else is
\* local to a thread
Switch ==
    /\ other # NoThread
    /\ request' = other.request
    /\ stack' = other.stack
    /\ events' = other.events
    /\ outcome' = other.outcome
    /\ phase' = other.phase
    /\ other' = Thread(3 - other.id, request, stack, events, outcome, phase)
    /\ UNCHANGED <<cfg, conns, normVars, env>>

\* one client with the platform-native transport, two threads with distinct
\* Request objects, neither call started
InitC ==
    /\ env = Env(None, TRUE, CertFile, FALSE, UserAgent)
    /\ cfg \in ClientsIn(env)
    /\ request = NewRequest(Host1Port, <<"d">>, "", RequestHeadersWithHost)
    /\ other = Thread(2, NewRequest(Host1, None, "", RequestHeaders), <<>>, <<>>,
                      NoOutcome, "idle")
    /\ stack = <<>>
    /\ conns = <<>>
    /\ events = <<>>
    /\ outcome = NoOutcome
    /\ phase = "idle"
    /\ IdleNorm

NextC == Next \/ Switch

SpecC == InitC /\ [][NextC]_vars

\* the connections a thread has worked on, by its own record of operations
Own(evs) == {evs[k].conn : k \in DOMAIN evs}

CloseCount(evs, i) == Cardinality({k \in DOMAIN evs : evs[k].conn = i /\ evs[k].op = "close"})

\* the connection of a thread's latest hop
LastOwn(evs) ==
    evs[CHOOSE k \in DOMAIN evs :
            /\ evs[k].op = "get_connection"
            /\ \A m \in (k + 1)..Len(evs) : evs[m].op # "get_connection"].conn

\* what a call returns or raises, run alone, when its last hop was answered
\* on connection c and no transport error occurred
OutcomeAlone(c) ==
    IF c.served.status = 307
    THEN Result("KeyError", 0, "", <<>>, None)
    ELSE Result(IF c.served.status >= 300 THEN "HTTPError" ELSE "Response",
                c.served.status, c.served.reason, LowerNames(c.served.headers),
                c.delivered)

\* a thread works on its own connections and Request only and ends as it
\* would alone
ThreadIsolated(t) ==
    /\ \A k \in DOMAIN t.stack : t.stack[k].conn \in Own(t.events)
    /\ \A k \in DOMAIN t.events :
          \E a \in 1..k : /\ t.events[a].op = "get_connection"
                          /\ t.events[a].conn = t.events[k].conn
    /\ t.events # <<>> => conns[LastOwn(t.events)].host = t.request.host
    /\ (t.phase = "done" /\ t.outcome.kind # "TransportError") =>
          t.outcome = OutcomeAlone(conns[LastOwn(t.events)])

\* the thread that runs
Current == Thread(3 - other.id, request, stack, events, outcome, phase)

Isolated ==
    /\ Own(events) \cap Own(other.events) = {}
    /\ Own(events) \cup Own(other.events) = DOMAIN conns
    /\ \A i \in DOMAIN conns :
          conns[i].closes = CloseCount(events, i) + CloseCount(other.events, i)
    /\ ThreadIsolated(Current)
    /\ ThreadIsolated(other)

\* C14: perform_request never changes the client configuration, and two
\* concurrent calls with distinct Request objects share nothing else: under
\* every interleaving each call works on and closes only the connections it
\* acquired itself, a step of one call leaves the Request, activations and
\* outcome of the other untouched, and each call ends with the outcome it
\* has alone for the responses its own connections were given.
C14_ConcurrentCallsIsolated ==
    /\ [](Isolated)
    /\ [][cfg' = cfg]_vars
    /\ [][other'.id = other.id => other' = other]_vars

C14_Witness ==
    /\ phase = "done"
    /\ other.phase = "done"
    /\ Len(conns) = 4
    /\ Own(events) = {1, 3}
    /\ Own(other.events) = {2, 4}
    /\ outcome.kind = "Response"
    /\ other.outcome.kind = "HTTPError"
    /\ \A i \in DOMAIN conns : conns[i].closes = 1

====
